---- MODULE Spec2Model ----
(***************************************************************************)
(* vinuxt file-system router (packages/vinuxt/src/routing/router.ts).      *)
(*                                                                         *)
(* Part I  : the route cache (routeCache, scanRoutes, invalidateRouteCache)*)
(*           as a state machine over scan calls, directory walks, cache    *)
(*           invalidations and file-system changes.  Specification: Spec.  *)
(* Part II : the pure pipeline fileToRoute / buildRouteTree /              *)
(*           routePrecedence / matchRoute over character sequences.        *)
(*           Specification: SpecRoutes.                                    *)
(* Part III: the server endpoints of server/api-handler.ts               *)
(*           (filePathToRoutePattern, extractHttpMethod, scanApiRoutes,    *)
(*           matchApiRoute) and the two matchPattern functions side by     *)
(*           side.  Specifications: SpecApi, SpecMatch.                    *)
(* Part IV : page directories with files two levels below a layout file.   *)
(*           Specification: SpecDeep.                                      *)
(* Part V  : the route cache when a directory walk can fail.               *)
(*           Specification: SpecFail.                                      *)
(***************************************************************************)
EXTENDS Integers, Sequences, FiniteSets, TLC

VARIABLES
    \* ---- Part I: route cache ----
    fsFiles,      \* the file system: directory -> set of page files in it
    routeCache,   \* the module-level Map: directory -> entry or NoEntry
    walks,        \* the promises returned by scanPageRoutes, one per walk
    calls,        \* the scanRoutes invocations made so far
    invCount,     \* history: number of invalidateRouteCache calls per directory
    fsOps,        \* history: number of file-system changes made so far
    sinceInv,     \* history: per directory, what happened since its last invalidate
    \* ---- Part II: pure pipeline ----
    pc,           \* position of the pipeline
    files,        \* the files of the pages directory, in the order glob yields them
    flat,         \* flat_routes of scanPageRoutes
    tree,         \* the route tree returned by buildRouteTree
    url,          \* the URL handed to matchRoute
    result,       \* the value returned by matchRoute
    \* ---- Part III: direct matches and server endpoints ----
    patternArg,   \* the pattern handed to the two matchPattern functions
    matched,      \* the value returned by matchPattern of router.ts
    apiMatched,   \* the value returned by matchPattern of api-handler.ts
    project,      \* the project root: its pages, server/api, server/routes
    apiRoutes,    \* the list returned by scanApiRoutes
    request,      \* the pathname and method handed to matchApiRoute
    response      \* the value returned by matchApiRoute

cacheVars == <<fsFiles, routeCache, walks, calls, invCount, fsOps, sinceInv>>
routeVars == <<pc, files, flat, tree, url, result>>
apiVars == <<patternArg, matched, apiMatched, project, apiRoutes, request, response>>
vars == <<fsFiles, routeCache, walks, calls, invCount, fsOps, sinceInv,
          pc, files, flat, tree, url, result,
          patternArg, matched, apiMatched, project, apiRoutes, request, response>>

(***************************************************************************)
(* Part I.  Route cache                                                    *)
(***************************************************************************)

\* Bounds of the cache model.
MaxCalls == 3
MaxInvalidates == 1
MaxFsOps == 1

Dirs == {"pagesA", "pagesB"}
DiskFiles == {"a.vue"}

NoEntry == [none |-> TRUE]
NoValue == [pending |-> TRUE]

\* routeCache.get(pagesDir) is truthy
Cached(cache, d) == cache[d] # NoEntry

\* routeCache.set(pagesDir, { routes, promise })
CacheSet(cache, d, routes, promise) ==
    [cache EXCEPT ![d] = [routes |-> routes, promise |-> promise]]

\* A mutant of invalidateRouteCache: clears the whole map.
InvalidateClearsAll(cache, d) == [e \in DOMAIN cache |-> NoEntry]

\* A mutant of invalidateRouteCache: deletes nothing.
InvalidateKeeps(cache, d) == cache

\* invalidateRouteCache(pagesDir): routeCache.delete(pagesDir)
InvalidateRouteCache(cache, d) == [cache EXCEPT ![d] = NoEntry]

\* The value a scanRoutes call resolves to: that of the promise it awaits
\* (line 50) or returns (line 46).
Result(c) == walks[calls[c].promise].value

\* A call has completed when the promise it returned to its caller has
\* resolved: after line 52 for the call that started the walk, with the
\* cached promise for a call that hit the cache.
Completed(c) ==
    IF calls[c].own THEN calls[c].pc = "done"
                    ELSE walks[calls[c].promise].state = "fulfilled"

\* A scanRoutes call that has started a walk and not yet run line 51-52.
InFlight(d) ==
    {i \in 1..Len(calls) : calls[i].dir = d /\ calls[i].own /\ calls[i].pc = "awaiting"}

CompletedCalls(d) == {i \in 1..Len(calls) : calls[i].dir = d /\ Completed(i)}

NewCall(d, promise, own) ==
    [dir |-> d, promise |-> promise, own |-> own,
     pc |-> IF own THEN "awaiting" ELSE "returned",
     \* history fields, read only by the properties
     callEpoch |-> invCount[d],
     inflightAtCall |-> InFlight(d),
     completedAtCall |-> CompletedCalls(d),
     afterCleanInv |-> sinceInv[d].clean,
     addedAtCall |-> sinceInv[d].added]

\* scanRoutes(pagesDir), lines 45-49, run synchronously up to the first await:
\* a cache hit returns the cached promise; a miss starts scanPageRoutes (a new
\* walk of the directory) and stores its pending promise.
ScanCall(d) ==
    /\ Len(calls) < MaxCalls
    /\ IF Cached(routeCache, d)
         THEN /\ calls' = Append(calls, NewCall(d, routeCache[d].promise, FALSE))
              /\ UNCHANGED <<walks, routeCache>>
         ELSE /\ walks' = Append(walks,
                     [dir |-> d, state |-> "pending", value |-> NoValue,
                      must |-> fsFiles[d], may |-> fsFiles[d]])
              /\ calls' = Append(calls, NewCall(d, Len(walks) + 1, TRUE))
              /\ routeCache' = CacheSet(routeCache, d, <<>>, Len(walks) + 1)
    /\ sinceInv' = [sinceInv EXCEPT ![d] = [clean |-> FALSE, added |-> {}]]
    /\ UNCHANGED <<fsFiles, invCount, fsOps, routeVars, apiVars>>

\* scanPageRoutes resolves: the glob iteration has ended.  A file that was in
\* the directory during the whole walk is in the result; one that was there
\* during part of it may be.
WalkComplete(w) ==
    /\ w \in 1..Len(walks)
    /\ walks[w].state = "pending"
    /\ \E seen \in SUBSET walks[w].may :
          /\ walks[w].must \subseteq seen
          /\ walks' = [walks EXCEPT ![w].state = "fulfilled", ![w].value = seen]
    /\ UNCHANGED <<fsFiles, routeCache, calls, invCount, fsOps, sinceInv, routeVars, apiVars>>

\* scanRoutes lines 50-52 of the call that started the walk: the await ends,
\* the resolved entry is stored (line 51) and the routes are returned.
ScanResume(c) ==
    /\ c \in 1..Len(calls)
    /\ calls[c].own /\ calls[c].pc = "awaiting"
    /\ walks[calls[c].promise].state = "fulfilled"
    /\ routeCache' = CacheSet(routeCache, calls[c].dir, Result(c), calls[c].promise)
    /\ calls' = [calls EXCEPT ![c].pc = "done"]
    /\ UNCHANGED <<fsFiles, walks, invCount, fsOps, sinceInv, routeVars, apiVars>>

\* invalidateRouteCache(pagesDir), called by the file watcher.
Invalidate(d) ==
    /\ invCount["pagesA"] + invCount["pagesB"] < MaxInvalidates
    /\ routeCache' = InvalidateRouteCache(routeCache, d)
    /\ invCount' = [invCount EXCEPT ![d] = @ + 1]
    /\ sinceInv' = [sinceInv EXCEPT ![d] = [clean |-> InFlight(d) = {}, added |-> {}]]
    /\ UNCHANGED <<fsFiles, walks, calls, fsOps, routeVars, apiVars>>

\* The environment adds a page file to a directory; a walk of it that is
\* under way may or may not see the file.
AddFile(d, f) ==
    /\ fsOps < MaxFsOps
    /\ f \notin fsFiles[d]
    /\ fsFiles' = [fsFiles EXCEPT ![d] = @ \cup {f}]
    /\ walks' = [w \in 1..Len(walks) |->
                    IF walks[w].dir = d /\ walks[w].state = "pending"
                      THEN [walks[w] EXCEPT !.may = @ \cup {f}]
                      ELSE walks[w]]
    /\ fsOps' = fsOps + 1
    /\ sinceInv' = [sinceInv EXCEPT ![d].added = IF sinceInv[d].clean THEN @ \cup {f} ELSE @]
    /\ UNCHANGED <<routeCache, calls, invCount, routeVars, apiVars>>

\* The environment removes a page file from a directory.
RemoveFile(d, f) ==
    /\ fsOps < MaxFsOps
    /\ f \in fsFiles[d]
    /\ fsFiles' = [fsFiles EXCEPT ![d] = @ \ {f}]
    /\ walks' = [w \in 1..Len(walks) |->
                    IF walks[w].dir = d /\ walks[w].state = "pending"
                      THEN [walks[w] EXCEPT !.must = @ \ {f}]
                      ELSE walks[w]]
    /\ fsOps' = fsOps + 1
    /\ sinceInv' = [sinceInv EXCEPT ![d].added = @ \ {f}]
    /\ UNCHANGED <<routeCache, calls, invCount, routeVars, apiVars>>

RoutesIdle ==
    /\ pc = "off" /\ files = <<>> /\ flat = <<>> /\ tree = <<>>
    /\ url = <<>> /\ result = <<>>

\* Nothing of Part III has run.
ApiIdle ==
    /\ patternArg = <<>> /\ matched = <<>> /\ apiMatched = <<>>
    /\ project = <<>> /\ apiRoutes = <<>> /\ request = <<>> /\ response = <<>>

\* The module is loaded: the cache is empty (line 18).  The directories hold
\* any files.
Init ==
    /\ fsFiles \in [Dirs -> SUBSET DiskFiles]
    /\ routeCache = [d \in Dirs |-> NoEntry]
    /\ walks = <<>>
    /\ calls = <<>>
    /\ invCount = [d \in Dirs |-> 0]
    /\ fsOps = 0
    /\ sinceInv = [d \in Dirs |-> [clean |-> FALSE, added |-> {}]]
    /\ RoutesIdle
    /\ ApiIdle

Next ==
    \/ \E d \in Dirs : ScanCall(d)
    \/ \E w \in 1..MaxCalls : WalkComplete(w)
    \/ \E c \in 1..MaxCalls : ScanResume(c)
    \/ \E d \in Dirs : Invalidate(d)
    \/ \E d \in Dirs, f \in DiskFiles : AddFile(d, f)
    \/ \E d \in Dirs, f \in DiskFiles : RemoveFile(d, f)

Spec == Init /\ [][Next]_vars

(***************************************************************************)
(* Properties of the route cache (specification Spec)                      *)
(***************************************************************************)

SameDir(a, b) == calls[a].dir = calls[b].dir

\* C1: when scan(dir) is called a second time while the first scan of the
\* same, previously uncached dir is still in flight, and no invalidate(dir)
\* happens in between, the second caller is handed the same pending
\* computation, starts no walk of its own, and both resolve to the same list.
C1_SecondCallerSharesPendingScan ==
    \A a, b \in 1..Len(calls) :
        ( /\ a < b /\ SameDir(a, b)
          /\ calls[a].own                         \* dir was uncached at the first call
          /\ a \in calls[b].inflightAtCall        \* first scan still in flight
          /\ calls[a].callEpoch = calls[b].callEpoch )   \* no invalidate in between
        => /\ ~calls[b].own
           /\ calls[b].promise = calls[a].promise
           /\ (Completed(a) /\ Completed(b) => Result(a) = Result(b))

\* C2: after a scan(dir) has completed, every further scan(dir) call made
\* with no invalidate(dir) since that scan was called returns the same route
\* list and starts no new walk, whatever happened to the files meanwhile.
C2_RepeatedScanIsMemoized ==
    \A x, y \in 1..Len(calls) :
        ( /\ x < y /\ SameDir(x, y)
          /\ x \in calls[y].completedAtCall
          /\ calls[x].callEpoch = calls[y].callEpoch )
        => /\ ~calls[y].own
           /\ (Completed(y) => Result(y) = Result(x))

\* C3: if no scan of dir is in flight when invalidate(dir) is called, the
\* next scan(dir) starts a new walk, and a file added after the invalidate
\* and before that scan (and not removed while the walk runs) is in its
\* result.
C3_ScanAfterInvalidateRescans ==
    \A x \in 1..Len(calls) :
        calls[x].afterCleanInv
        => /\ calls[x].own
           /\ Completed(x) =>
                \A f \in calls[x].addedAtCall :
                    f \in Result(x) \/ f \notin walks[calls[x].promise].must

\* C3 witness: a directory was scanned, invalidated with no scan in flight,
\* got a new file, and the next scan completed with that file in its list.
C3_Witness ==
    \E x, y \in 1..Len(calls) :
        /\ x < y /\ SameDir(x, y)
        /\ y \notin calls[x].inflightAtCall /\ x \in calls[y].completedAtCall
        /\ calls[y].afterCleanInv /\ calls[y].addedAtCall # {}
        /\ Completed(y) /\ calls[y].addedAtCall \subseteq Result(y)
        /\ Result(x) # Result(y)

\* C4: invalidate(dir) on a directory with no cache entry leaves the whole
\* cache unchanged; a second invalidate(dir) right after the first changes
\* nothing more; entries of other directories are never touched.
C4_InvalidateIsSafeAndIdempotent ==
    [][\A d \in Dirs :
          invCount'[d] = invCount[d] + 1
          => /\ (~Cached(routeCache, d) => routeCache' = routeCache)
             /\ \A e \in Dirs \ {d} : routeCache'[e] = routeCache[e]
             /\ ~Cached(routeCache', d)
             /\ InvalidateRouteCache(routeCache', d) = routeCache']_vars

\* C4 witness: a directory without an entry has just been invalidated while
\* the other directory holds an entry.
C4_Witness ==
    \E d \in Dirs :
        /\ invCount[d] = 1 /\ sinceInv[d].clean
        /\ \A c \in 1..Len(calls) : calls[c].dir # d
        /\ \E e \in Dirs \ {d} : Cached(routeCache, e)

(***************************************************************************)
(* Part II.  The pure pipeline.  Strings are sequences of one-character    *)
(* strings, so that split, join, prefix tests and the regular expressions  *)
(* of the source act on characters as they do in the code.                 *)
(***************************************************************************)

\* Bound of the pipeline model: the number of files in the pages directory.
MaxFiles == 3

Slash == "/"

\* String.prototype.startsWith / endsWith / includes
StartsWith(s, p) == Len(s) >= Len(p) /\ SubSeq(s, 1, Len(p)) = p
EndsWith(s, p) == Len(s) >= Len(p) /\ SubSeq(s, Len(s) - Len(p) + 1, Len(s)) = p
Includes(s, c) == \E i \in 1..Len(s) : s[i] = c

\* String.prototype.split(sep) for a one-character separator: empty pieces
\* are kept, and a string without the separator is one piece.
RECURSIVE Split(_, _)
Split(s, sep) ==
    IF Includes(s, sep)
      THEN LET i == CHOOSE k \in 1..Len(s) :
                       s[k] = sep /\ \A j \in 1..(k - 1) : s[j] # sep
           IN <<SubSeq(s, 1, i - 1)>> \o Split(SubSeq(s, i + 1, Len(s)), sep)
      ELSE <<s>>

\* Array.prototype.join(sep)
RECURSIVE Join(_, _)
Join(parts, sep) ==
    IF parts = <<>> THEN <<>>
    ELSE IF Len(parts) = 1 THEN parts[1]
    ELSE parts[1] \o <<sep>> \o Join(Tail(parts), sep)

\* .filter(Boolean) on an array of strings: the empty strings are dropped.
NonEmpty(p) == p # <<>>
FilterBoolean(parts) == SelectSeq(parts, NonEmpty)

\* The regular-expression class \w
WordChars ==
    {"a","b","c","d","e","f","g","h","i","j","k","l","m","n","o","p","q","r",
     "s","t","u","v","w","x","y","z",
     "A","B","C","D","E","F","G","H","I","J","K","L","M","N","O","P","Q","R",
     "S","T","U","V","W","X","Y","Z",
     "0","1","2","3","4","5","6","7","8","9","_"}

\* \w+ : a non-empty run of word characters
IsWord(s) == Len(s) >= 1 /\ \A i \in 1..Len(s) : s[i] \in WordChars

Inner(s, nFront, nBack) == SubSeq(s, nFront + 1, Len(s) - nBack)

\* segment.match(/^\[\.\.\.(\w+)\]$/)
MatchCatchAll(seg) ==
    /\ StartsWith(seg, <<"[", ".", ".", ".">>) /\ EndsWith(seg, <<"]">>)
    /\ Len(seg) >= 6 /\ IsWord(Inner(seg, 4, 1))

\* segment.match(/^\[\[\.\.\.(\w+)\]\]$/)
MatchOptionalCatchAll(seg) ==
    /\ StartsWith(seg, <<"[", "[", ".", ".", ".">>) /\ EndsWith(seg, <<"]", "]">>)
    /\ Len(seg) >= 8 /\ IsWord(Inner(seg, 5, 2))

\* segment.match(/^\[(\w+)\]$/)
MatchDynamic(seg) ==
    /\ StartsWith(seg, <<"[">>) /\ EndsWith(seg, <<"]">>)
    /\ Len(seg) >= 3 /\ IsWord(Inner(seg, 1, 1))

\* The extensions of /\.(vue|tsx?|jsx?)$/ and of the glob {vue,tsx,ts,jsx,js}
Extensions ==
    { <<".", "v", "u", "e">>, <<".", "t", "s">>, <<".", "t", "s", "x">>,
      <<".", "j", "s">>, <<".", "j", "s", "x">> }

HasExtension(name) == \E e \in Extensions : EndsWith(name, e)

\* file.replace(/\.(vue|tsx?|jsx?)$/, ""): at most one alternative matches
\* at the end of a name.
RemoveExtension(file) ==
    IF HasExtension(file)
      THEN LET e == CHOOSE x \in Extensions : EndsWith(file, x)
           IN SubSeq(file, 1, Len(file) - Len(e))
      ELSE file

Index == <<"i", "n", "d", "e", "x">>

\* A mutant of the index rule of fileToRoute: every "index" segment is dropped.
DropIndexEverywhere(segments) == SelectSeq(segments, LAMBDA x : x # Index)

\* fileToRoute lines 85-88: a last segment "index" is popped.
DropIndex(segments) ==
    IF segments[Len(segments)] = Index
      THEN SubSeq(segments, 1, Len(segments) - 1)
      ELSE segments

\* A mutant of the segment conversion: a catch-all yields the plain token.
SegmentUrlNoPlus(seg) ==
    IF MatchCatchAll(seg) THEN <<":">> \o Inner(seg, 4, 1)
    ELSE IF MatchOptionalCatchAll(seg) THEN <<":">> \o Inner(seg, 5, 2) \o <<"*">>
    ELSE IF MatchDynamic(seg) THEN <<":">> \o Inner(seg, 1, 1)
    ELSE seg

\* fileToRoute lines 94-120, the value the map callback returns.
SegmentUrl(seg) ==
    IF MatchCatchAll(seg) THEN <<":">> \o Inner(seg, 4, 1) \o <<"+">>
    ELSE IF MatchOptionalCatchAll(seg) THEN <<":">> \o Inner(seg, 5, 2) \o <<"*">>
    ELSE IF MatchDynamic(seg) THEN <<":">> \o Inner(seg, 1, 1)
    ELSE seg

\* fileToRoute lines 94-120, what the map callback pushes to params.
SegmentParams(seg) ==
    IF MatchCatchAll(seg) THEN <<Inner(seg, 4, 1)>>
    ELSE IF MatchOptionalCatchAll(seg) THEN <<Inner(seg, 5, 2)>>
    ELSE IF MatchDynamic(seg) THEN <<Inner(seg, 1, 1)>>
    ELSE <<>>

RECURSIVE ParamsOf(_)
ParamsOf(segments) ==
    IF segments = <<>> THEN <<>>
    ELSE SegmentParams(segments[1]) \o ParamsOf(Tail(segments))

\* is_dynamic: set by every branch that pushes a parameter
IsDynamicOf(segments) ==
    \E i \in 1..Len(segments) :
        MatchCatchAll(segments[i]) \/ MatchOptionalCatchAll(segments[i])
            \/ MatchDynamic(segments[i])

PagesDir == <<"/", "p">>

\* path.join(pagesDir, file) for a relative file without "." or ".." parts
PathJoin(dir, file) == dir \o <<Slash>> \o file

\* path.basename(p)
Basename(p) == LET parts == Split(p, Slash) IN parts[Len(parts)]

\* fileToRoute(file, pagesDir)
FileToRoute(file, pagesDir) ==
    LET ext_without == RemoveExtension(file)
        segments == DropIndex(Split(ext_without, Slash))
        segments_url == [i \in 1..Len(segments) |-> SegmentUrl(segments[i])]
    IN [pattern |-> <<Slash>> \o Join(segments_url, Slash),
        filePath |-> PathJoin(pagesDir, file),
        isDynamic |-> IsDynamicOf(segments),
        params |-> ParamsOf(segments),
        children |-> <<>>]

\* A mutant of the underscore filter: only the file name is looked at.
IsIgnoredNameOnly(file) ==
    LET parts == Split(file, Slash) IN StartsWith(parts[Len(parts)], <<"_">>)

\* scanPageRoutes line 62: some segment of the relative path starts with "_"
IsIgnored(file) ==
    LET parts == Split(file, Slash)
    IN \E i \in 1..Len(parts) : StartsWith(parts[i], <<"_">>)

\* glob("**/*.{vue,tsx,ts,jsx,js}"): the files whose name ends in one of
\* the extensions, in the order the directory walk yields them.
Glob(disk) == SelectSeq(disk, HasExtension)

\* scanPageRoutes lines 56-66: flat_routes
RECURSIVE FlatRoutes(_, _)
FlatRoutes(globbed, pagesDir) ==
    IF globbed = <<>> THEN <<>>
    ELSE (IF IsIgnored(globbed[1]) THEN <<>>
          ELSE <<FileToRoute(globbed[1], pagesDir)>>)
         \o FlatRoutes(Tail(globbed), pagesDir)

\* ---- buildRouteTree ----

\* basename.match(/^index\.(vue|tsx?|jsx?)$/)
IsIndexFile(route) ==
    \E e \in Extensions : Basename(route.filePath) = Index \o e

\* First pass (lines 150-156): a route is indexed in map_parent unless its
\* pattern is "/" or it comes from an index file.
IsParentCandidate(route) == route.pattern # <<Slash>> /\ ~IsIndexFile(route)

\* A mutant of the first pass: index files are parent candidates too.
IsParentAnyCandidate(routes, j) ==
    /\ routes[j].pattern # <<Slash>>
    /\ \A k \in (j + 1)..Len(routes) :
          ~(routes[k].pattern # <<Slash>> /\ routes[k].pattern = routes[j].pattern)

\* map_parent.set(route.pattern, route) keeps, for each pattern, the last
\* candidate of the flat list: route j is a value of map_parent.
IsParent(routes, j) ==
    /\ IsParentCandidate(routes[j])
    /\ \A k \in (j + 1)..Len(routes) :
          ~(IsParentCandidate(routes[k]) /\ routes[k].pattern = routes[j].pattern)

\* lines 169-172: is_direct_child
IsDirectChild(pattern, pattern_parent) ==
    LET prefix == pattern_parent \o <<Slash>>
    IN /\ StartsWith(pattern, prefix)
       /\ ~Includes(SubSeq(pattern, Len(prefix) + 1, Len(pattern)), Slash)

\* Second pass (lines 164-176): route i is pushed to the children of parent j.
IsChildOf(routes, i, j) ==
    /\ IsParent(routes, j)
    /\ i # j
    /\ \/ IsDirectChild(routes[i].pattern, routes[j].pattern)
       \/ routes[i].pattern = routes[j].pattern

\* lines 178-183: pattern_child
ChildPattern(pattern, pattern_parent) ==
    IF pattern = pattern_parent THEN <<>>
    ELSE SubSeq(pattern, Len(pattern_parent) + 2, Len(pattern))

\* set_child_indices
ChildIndices(routes) ==
    {i \in 1..Len(routes) : \E j \in 1..Len(routes) : IsChildOf(routes, i, j)}

Indices(n) == [i \in 1..n |-> i]

\* The children array of flat_routes[j] when the second pass has ended.  The
\* copy pushed at line 185 ({...route, pattern}) shares the children array of
\* the route it copies, so it shows what is pushed to that route at any time.
RECURSIVE ChildrenArray(_, _)
ChildrenArray(routes, j) ==
    LET idx == SelectSeq(Indices(Len(routes)), LAMBDA i : IsChildOf(routes, i, j))
    IN [k \in 1..Len(idx) |->
          [routes[idx[k]] EXCEPT
              !.pattern = ChildPattern(routes[idx[k]].pattern, routes[j].pattern),
              !.children = ChildrenArray(routes, idx[k])]]

\* ---- routePrecedence ----

DynamicPenalty == 100
CatchAllPenalty == 10000
OptionalCatchAllPenalty == 20000

\* A mutant of the scoring: the dynamic and catch-all penalties are swapped.
PartScoreSwapped(p, i) ==
    IF EndsWith(p, <<"+">>) THEN DynamicPenalty + i
    ELSE IF EndsWith(p, <<"*">>) THEN OptionalCatchAllPenalty + i
    ELSE IF StartsWith(p, <<":">>) THEN CatchAllPenalty + i
    ELSE 0

\* The body of the loop of routePrecedence for part p at 0-based position i.
PartScore(p, i) ==
    IF EndsWith(p, <<"+">>) THEN CatchAllPenalty + i
    ELSE IF EndsWith(p, <<"*">>) THEN OptionalCatchAllPenalty + i
    ELSE IF StartsWith(p, <<":">>) THEN DynamicPenalty + i
    ELSE 0

RECURSIVE SumScores(_, _)
SumScores(parts, n) ==
    IF n = 0 THEN 0 ELSE SumScores(parts, n - 1) + PartScore(parts[n], n - 1)

\* routePrecedence(pattern)
RoutePrecedence(pattern) ==
    LET parts == FilterBoolean(Split(pattern, Slash))
    IN SumScores(parts, Len(parts))

\* The order String.prototype.localeCompare gives the characters used here
\* (root collation: punctuation, then symbols, then digits, then letters).
CollationOrder ==
    <<"_", "-", ",", ";", ":", "!", "?", ".", "[", "]", "@", "*", "/", "&", "#",
      "%", "+", "=", "~",
      "0", "1", "2", "3", "4", "5", "6", "7", "8", "9",
      "a", "b", "c", "d", "e", "f", "g", "h", "i", "j", "k", "l", "m", "n", "o",
      "p", "q", "r", "s", "t", "u", "v", "w", "x", "y", "z">>

CharRank(c) == CHOOSE i \in 1..Len(CollationOrder) : CollationOrder[i] = c

\* a.localeCompare(b): negative, zero or positive
RECURSIVE LocaleCompare(_, _)
LocaleCompare(a, b) ==
    IF a = <<>> /\ b = <<>> THEN 0
    ELSE IF a = <<>> THEN -1
    ELSE IF b = <<>> THEN 1
    ELSE IF CharRank(a[1]) < CharRank(b[1]) THEN -1
    ELSE IF CharRank(a[1]) > CharRank(b[1]) THEN 1
    ELSE LocaleCompare(Tail(a), Tail(b))

\* The comparator of lines 202-205 and 211-214.
CompareRoutes(a, b) ==
    LET diff == RoutePrecedence(a.pattern) - RoutePrecedence(b.pattern)
    IN IF diff # 0 THEN diff ELSE LocaleCompare(a.pattern, b.pattern)

\* Array.prototype.sort with that comparator: a stable sort.
RECURSIVE SortRoutes(_)
SortRoutes(routes) ==
    IF routes = <<>> THEN <<>>
    ELSE LET n == Len(routes)
             x == routes[n]
             sorted == SortRoutes(SubSeq(routes, 1, n - 1))
             k == Cardinality({i \in 1..(n - 1) : CompareRoutes(sorted[i], x) <= 0})
         IN SubSeq(sorted, 1, k) \o <<x>> \o SubSeq(sorted, k + 1, n - 1)

\* Third pass (lines 196-208): the routes that are no child, each with its
\* children array sorted in place.
TopLevel(routes) ==
    LET top == SelectSeq(Indices(Len(routes)), LAMBDA i : i \notin ChildIndices(routes))
    IN [k \in 1..Len(top) |->
           [routes[top[k]] EXCEPT !.children = SortRoutes(ChildrenArray(routes, top[k]))]]

\* A mutant of buildRouteTree: the top-level list is left in scan order.
BuildRouteTreeUnsorted(routes) == TopLevel(routes)

\* buildRouteTree(flat_routes): the sorted top level (lines 211-216)
BuildRouteTree(routes) == SortRoutes(TopLevel(routes))

\* scanPageRoutes(pagesDir) on a directory whose walk yields `disk`
ScanPageRoutes(disk, pagesDir) == BuildRouteTree(FlatRoutes(Glob(disk), pagesDir))

\* ---- matchRoute ----

\* params[name] = value on the object created at line 322: a later write to
\* the same key replaces the value and keeps the key's place.  A value is a
\* scalar (one URL segment) or a list of URL segments.
PutParam(params, name, kind, v) ==
    IF \E k \in 1..Len(params) : params[k].name = name
      THEN [k \in 1..Len(params) |->
               IF params[k].name = name
                 THEN [name |-> name, kind |-> kind, v |-> v] ELSE params[k]]
      ELSE Append(params, [name |-> name, kind |-> kind, v |-> v])

Null == [ok |-> FALSE, params |-> <<>>]
Params(p) == [ok |-> TRUE, params |-> p]

\* The loop of matchPattern from pattern part i (1-based) on.
RECURSIVE MatchParts(_, _, _, _)
MatchParts(parts_url, parts_pattern, i, params) ==
    IF i > Len(parts_pattern)
      THEN IF Len(parts_url) # Len(parts_pattern) THEN Null ELSE Params(params)
      ELSE LET pp == parts_pattern[i]
               remaining == SubSeq(parts_url, i, Len(parts_url))
           IN IF EndsWith(pp, <<"+">>)
                THEN IF remaining = <<>> THEN Null
                     ELSE Params(PutParam(params, SubSeq(pp, 2, Len(pp) - 1),
                                          "list", remaining))
              ELSE IF EndsWith(pp, <<"*">>)
                THEN Params(PutParam(params, SubSeq(pp, 2, Len(pp) - 1),
                                     "list", remaining))
              ELSE IF StartsWith(pp, <<":">>)
                THEN IF i > Len(parts_url) THEN Null
                     ELSE MatchParts(parts_url, parts_pattern, i + 1,
                              PutParam(params, SubSeq(pp, 2, Len(pp)),
                                       "scalar", <<parts_url[i]>>))
              ELSE IF i > Len(parts_url) \/ parts_url[i] # pp THEN Null
                   ELSE MatchParts(parts_url, parts_pattern, i + 1, params)

\* matchPattern(url, pattern)
MatchPattern(u, pattern) ==
    MatchParts(FilterBoolean(Split(u, Slash)), FilterBoolean(Split(pattern, Slash)),
               1, <<>>)

NoRoute ==
    [pattern |-> <<>>, filePath |-> <<>>, isDynamic |-> FALSE, params |-> <<>>,
     children |-> <<>>]
NoMatch == [found |-> FALSE, route |-> NoRoute, params |-> <<>>]
Found(route, params) == [found |-> TRUE, route |-> route, params |-> params]

\* lines 300-305: pattern_full
PatternFull(parent, child) ==
    IF parent.pattern = <<Slash>> THEN <<Slash>> \o child.pattern
    ELSE IF child.pattern = <<>> THEN parent.pattern
    ELSE parent.pattern \o <<Slash>> \o child.pattern

\* matchChildren(url, parent), from child k on
RECURSIVE MatchChildrenFrom(_, _, _)
MatchChildrenFrom(u, parent, k) ==
    IF k > Len(parent.children) THEN NoMatch
    ELSE LET child == parent.children[k]
             params == MatchPattern(u, PatternFull(parent, child))
         IN IF params.ok THEN Found(child, params.params)
            ELSE MatchChildrenFrom(u, parent, k + 1)

\* A mutant of matchChildren: the index child "" is passed over.
MatchChildrenSkipsIndex(u, parent) ==
    MatchChildrenFrom(u,
        [parent EXCEPT !.children = SelectSeq(@, LAMBDA c : c.pattern # <<>>)], 1)

MatchChildren(u, parent) == MatchChildrenFrom(u, parent, 1)

\* The loop of matchRoute (lines 262-291) from route r on.
RECURSIVE MatchRoutesFrom(_, _, _)
MatchRoutesFrom(u, routes, r) ==
    IF r > Len(routes) THEN NoMatch
    ELSE
      LET route == routes[r]
          params == MatchPattern(u, route.pattern)
          direct == IF params.ok THEN Found(route, params.params)
                    ELSE MatchRoutesFrom(u, routes, r + 1)
          prefix == IF route.pattern = <<Slash>> THEN <<Slash>>
                    ELSE route.pattern \o <<Slash>>
      IN IF route.children # <<>>
           THEN IF params.ok
                  THEN IF MatchChildren(u, route).found THEN MatchChildren(u, route)
                       ELSE Found(route, params.params)
                ELSE IF (StartsWith(u, prefix) \/ u = route.pattern)
                          /\ MatchChildren(u, route).found
                  THEN MatchChildren(u, route)
                ELSE direct
           ELSE direct

\* A mutant of the normalisation: the query string is kept.
PathnameKeepsQuery(u) == u

\* url.split("?")[0]
Pathname(u) == Split(u, "?")[1]

\* A mutant of the normalisation: the root path is stripped too.
StripTrailingSlashAlways(pathname) ==
    IF EndsWith(pathname, <<Slash>>) THEN SubSeq(pathname, 1, Len(pathname) - 1)
    ELSE pathname

\* pathname === "/" ? "/" : pathname.replace(/\/$/, "")
StripTrailingSlash(pathname) ==
    IF pathname = <<Slash>> THEN <<Slash>>
    ELSE IF EndsWith(pathname, <<Slash>>)
      THEN SubSeq(pathname, 1, Len(pathname) - 1)
    ELSE pathname

HexDigits ==
    <<"0", "1", "2", "3", "4", "5", "6", "7", "8", "9", "A", "B", "C", "D", "E", "F">>
HexLower == <<"0", "1", "2", "3", "4", "5", "6", "7", "8", "9", "a", "b", "c", "d", "e", "f">>
IsHex(c) == \E i \in 1..16 : HexDigits[i] = c \/ HexLower[i] = c
HexVal(c) == (CHOOSE i \in 1..16 : HexDigits[i] = c \/ HexLower[i] = c) - 1

\* The ASCII characters the escapes of this model stand for.
AsciiChar(code) ==
    CASE code = 37 -> "%"
      [] code = 47 -> "/"
      [] code = 63 -> "?"
      [] code = 97 -> "a"
      [] code = 98 -> "b"

\* decodeURIComponent(s): an escape %XX of an ASCII byte is replaced by its
\* character; a "%" not followed by two hex digits, or an escaped byte that
\* does not start a valid UTF-8 sequence, throws URIError.  Escapes of
\* multi-byte sequences do not occur in the inputs of this model.
RECURSIVE DecodeURIComponent(_)
DecodeURIComponent(str) ==
    IF str = <<>> THEN [ok |-> TRUE, value |-> <<>>]
    ELSE IF str[1] # "%"
      THEN LET rest == DecodeURIComponent(Tail(str))
           IN [ok |-> rest.ok, value |-> <<str[1]>> \o rest.value]
    ELSE IF Len(str) < 3 \/ ~IsHex(str[2]) \/ ~IsHex(str[3])
      THEN [ok |-> FALSE, value |-> <<>>]
    ELSE LET code == 16 * HexVal(str[2]) + HexVal(str[3])
             rest == DecodeURIComponent(SubSeq(str, 4, Len(str)))
         IN IF code >= 128 THEN [ok |-> FALSE, value |-> <<>>]
            ELSE [ok |-> rest.ok, value |-> <<AsciiChar(code)>> \o rest.value]

\* A mutant of the normalisation: without the catch, what had been decoded
\* before the malformed escape is matched.
UrlNormalizedNoCatch(u) == DecodeURIComponent(StripTrailingSlash(Pathname(u))).value

\* lines 254-260: url_normalized
UrlNormalized(u) ==
    LET stripped == StripTrailingSlash(Pathname(u))
        decoded == DecodeURIComponent(stripped)
    IN IF decoded.ok THEN decoded.value ELSE stripped

\* matchRoute(url, routes)
MatchRoute(u, routes) == MatchRoutesFrom(UrlNormalized(u), routes, 1)

(***************************************************************************)
(* The inputs of the pipeline model                                        *)
(***************************************************************************)

\* Bound of the derivation model: the number of segments of a file path.
MaxDepth == 2

Vue == <<".", "v", "u", "e">>
Ts == <<".", "t", "s">>
Md == <<".", "m", "d">>

About == <<"a", "b", "o", "u", "t">>
Users == <<"u", "s", "e", "r", "s">>
BrId == <<"[", "i", "d", "]">>
BrSlug == <<"[", ".", ".", ".", "s", "l", "u", "g", "]">>
BrOptSlug == <<"[", "[", ".", ".", ".", "s", "l", "u", "g", "]", "]">>
Private == <<"_", "x">>
Inner_ == <<"x", "_", "y">>
PlusName == <<"c", "+">>
OpenBracket == <<"[", "i", "d">>
EmptyBrackets == <<"[", "]">>
DashBrackets == <<"[", "a", "-", "b", "]">>
TwoDots == <<"[", ".", ".", "x", "]">>

File(segments, ext) == Join(segments, Slash) \o ext

\* The page files of the tree and matching model.
PageFiles ==
    { File(<<Index>>, Vue), File(<<About>>, Vue), File(<<BrId>>, Vue),
      File(<<BrSlug>>, Vue), File(<<Users>>, Vue), File(<<Users, Index>>, Vue),
      File(<<Users, BrId>>, Vue), File(<<Users>>, Ts), File(<<PlusName>>, Vue),
      File(<<BrId, Index>>, Vue) }

\* The orders in which a walk can yield at most n files of a directory.
FileLists(universe, n) ==
    {l \in UNION {[1..k -> universe] : k \in 0..n} :
        \A i, j \in 1..Len(l) : i # j => l[i] # l[j]}

\* The segments and extensions of the single-file derivation model.
DeriveSegments ==
    { Index, About, BrId, BrSlug, BrOptSlug, Private, Inner_, PlusName,
      OpenBracket, EmptyBrackets, DashBrackets, TwoDots }
DeriveExtensions == {Vue, Ts, Md}
DeriveFiles ==
    { File(segs, e) :
        segs \in UNION {[1..k -> DeriveSegments] : k \in 1..MaxDepth},
        e \in DeriveExtensions }

Str_root == <<"/">>
Str_about == <<"/">> \o About
Str_users == <<"/">> \o Users
Str_users5 == <<"/">> \o Users \o <<"/", "5">>
Str_users5x == <<"/">> \o Users \o <<"/", "5", "/", "x">>
Str_escaped == <<"/", "%", "6", "1", "b", "o", "u", "t">>
Str_malformed == <<"/">> \o Users \o <<"/", "%">>
Str_highByte == <<"/", "%", "F", "F">>

\* The paths handed to matchRoute, without query and trailing slash.
BaseUrls ==
    { Str_root, Str_about, Str_users, Str_users5, Str_users5x, Str_escaped,
      Str_malformed, Str_highByte, <<>> }

Queries == { <<>>, <<"x", "=", "1">>, <<"a", "/", "?", "b", "/">> }

Urls ==
    BaseUrls \cup {u \o <<Slash>> : u \in BaseUrls}
             \cup {u \o <<"?">> \o q : u \in BaseUrls, q \in Queries}

CacheIdle ==
    /\ fsFiles = [d \in Dirs |-> {}]
    /\ routeCache = [d \in Dirs |-> NoEntry]
    /\ walks = <<>> /\ calls = <<>>
    /\ invCount = [d \in Dirs |-> 0]
    /\ fsOps = 0
    /\ sinceInv = [d \in Dirs |-> [clean |-> FALSE, added |-> {}]]

\* scanPageRoutes(pagesDir): the walk yields `files`; flat_routes is built and
\* the tree is returned.
ScanStep ==
    /\ pc = "start"
    /\ flat' = FlatRoutes(Glob(files), PagesDir)
    /\ tree' = ScanPageRoutes(files, PagesDir)
    /\ pc' = "scanned"
    /\ UNCHANGED <<files, url, result, cacheVars, apiVars>>

\* matchRoute(url, routes) on the scanned tree
MatchStep(u) ==
    /\ pc = "scanned"
    /\ url' = u
    /\ result' = MatchRoute(u, tree)
    /\ pc' = "matched"
    /\ UNCHANGED <<files, flat, tree, cacheVars, apiVars>>

InitRoutes ==
    /\ pc = "start"
    /\ files \in FileLists(PageFiles, MaxFiles)
    /\ flat = <<>> /\ tree = <<>> /\ url = <<>> /\ result = NoMatch
    /\ CacheIdle
    /\ ApiIdle

NextRoutes == ScanStep \/ \E u \in Urls : MatchStep(u)

SpecRoutes == InitRoutes /\ [][NextRoutes]_vars

InitDerive ==
    /\ pc = "start"
    /\ files \in {<<f>> : f \in DeriveFiles}
    /\ flat = <<>> /\ tree = <<>> /\ url = <<>> /\ result = NoMatch
    /\ CacheIdle
    /\ ApiIdle

NextDerive == ScanStep

SpecDerive == InitDerive /\ [][NextDerive]_vars

(***************************************************************************)
(* Properties of the derivation (specification SpecDerive)                 *)
(***************************************************************************)

\* The segments of a file path with its extension removed.
SegmentsOf(file) == Split(RemoveExtension(file), Slash)

\* The segments that reach the pattern: all but a final "index".
KeptSegments(file) ==
    LET segs == SegmentsOf(file)
    IN IF segs[Len(segs)] = Index THEN SubSeq(segs, 1, Len(segs) - 1) ELSE segs

\* The token each segment of the model's inputs is to become.
ExpectedToken(seg) ==
    CASE seg = BrId -> <<":", "i", "d">>
      [] seg = BrSlug -> <<":", "s", "l", "u", "g", "+">>
      [] seg = BrOptSlug -> <<":", "s", "l", "u", "g", "*">>
      [] OTHER -> seg

\* The parameter names each segment of the model's inputs is to capture.
ExpectedNames(seg) ==
    CASE seg = BrId -> << <<"i", "d">> >>
      [] seg \in {BrSlug, BrOptSlug} -> << <<"s", "l", "u", "g">> >>
      [] OTHER -> <<>>

RECURSIVE ExpectedParams(_)
ExpectedParams(segs) ==
    IF segs = <<>> THEN <<>> ELSE ExpectedNames(segs[1]) \o ExpectedParams(Tail(segs))

\* The parts of a pattern between its slashes ("/" has none).
PatternParts(pattern) ==
    IF pattern = <<Slash>> THEN <<>> ELSE Split(Tail(pattern), Slash)

\* C5: each path segment is converted on its own: [...name] to :name+,
\* [[...name]] to :name*, [name] to :name, any other segment is kept as it
\* is; params lists the captured names from left to right and isDynamic is
\* true exactly when params is not empty.
C5_SegmentsConvertIndependently ==
    (pc = "scanned" /\ flat # <<>>) =>
        LET segs == KeptSegments(files[1])
            parts == PatternParts(flat[1].pattern)
        IN /\ Len(parts) = Len(segs)
           /\ \A i \in 1..Len(segs) : parts[i] = ExpectedToken(segs[i])
           /\ flat[1].params = ExpectedParams(segs)
           /\ flat[1].isDynamic = (flat[1].params # <<>>)

\* C5 witness: [id]/[...slug].vue was scanned to /:id/:slug+ with params
\* id, slug.
C5_Witness ==
    /\ pc = "scanned"
    /\ files = <<File(<<BrId, BrSlug>>, Vue)>>
    /\ flat[1].pattern = <<"/", ":", "i", "d", "/", ":", "s", "l", "u", "g", "+">>
    /\ flat[1].params = << <<"i", "d">>, <<"s", "l", "u", "g">> >>
    /\ flat[1].isDynamic

\* C6: a last segment "index" is dropped from the pattern (index gives "/",
\* about/index gives "/about"); an "index" segment that is not the last one
\* stays in the pattern as literal text.
C6_LastIndexSegmentDropped ==
    (pc = "scanned" /\ flat # <<>>) =>
        LET segs == SegmentsOf(files[1])
            n == Len(segs)
            kept == IF segs[n] = Index THEN n - 1 ELSE n
            parts == PatternParts(flat[1].pattern)
        IN /\ Len(parts) = kept
           /\ \A i \in 1..kept : segs[i] = Index => parts[i] = Index
           /\ (kept = 0 => flat[1].pattern = <<Slash>>)
           /\ (files[1] = File(<<About, Index>>, Vue)
                  => flat[1].pattern = <<Slash>> \o About)

\* C6 witness: index/index.vue was scanned to /index.
C6_Witness ==
    /\ pc = "scanned"
    /\ files = <<File(<<Index, Index>>, Vue)>>
    /\ flat[1].pattern = <<Slash>> \o Index

\* Some segment of the relative path starts with an underscore.
HasUnderscoreSegment(file) ==
    \E i \in 1..Len(file) : file[i] = "_" /\ (i = 1 \/ file[i - 1] = Slash)

RECURSIVE NodesOf(_)
NodesOf(routes) ==
    UNION {{routes[k]} \cup NodesOf(routes[k].children) : k \in 1..Len(routes)}

FlatIdx == 1..Len(flat)

\* The route comes from a file named index.<extension>.
FromIndexFile(route) ==
    \E e \in Extensions : EndsWith(route.filePath, <<Slash>> \o Index \o e)

\* pattern = parent, or pattern = parent + "/" + one segment
NestsUnder(pattern, parent) ==
    \/ pattern = parent
    \/ /\ StartsWith(pattern, parent \o <<Slash>>)
       /\ Len(pattern) > Len(parent) + 1
       /\ \A k \in (Len(parent) + 2)..Len(pattern) : pattern[k] # Slash

\* The relative pattern of a child: "" or the one extra segment.
RelativePattern(pattern, parent) ==
    IF pattern = parent THEN <<>>
    ELSE SubSeq(pattern, Len(parent) + 2, Len(pattern))

IsTopLevel(i) == \E k \in 1..Len(tree) : tree[k].filePath = flat[i].filePath

\* Route i hangs, with its relative pattern, in the children of route j.
IsAttached(i, j) ==
    \E n \in NodesOf(tree) :
        /\ n.filePath = flat[j].filePath
        /\ \E k \in 1..Len(n.children) :
              /\ n.children[k].filePath = flat[i].filePath
              /\ n.children[k].pattern =
                     RelativePattern(flat[i].pattern, flat[j].pattern)

\* The routes the claim makes parents of route i: the other routes from a
\* non-index file whose pattern route i nests under.
ParentFiles(i) ==
    {j \in FlatIdx \ {i} :
        ~FromIndexFile(flat[j]) /\ NestsUnder(flat[i].pattern, flat[j].pattern)}

\* The same, counting for each pattern only the registered parent: the last
\* route of the scan from a non-index file with that pattern, "/" excepted.
RegisteredParents(i) ==
    {j \in ParentFiles(i) :
        /\ flat[j].pattern # <<Slash>>
        /\ \A k \in FlatIdx :
              (k > j /\ ~FromIndexFile(flat[k])) => flat[k].pattern # flat[j].pattern}

\* The tree nests route i under exactly the routes of parents(i), for every i.
TreeNestsBy(parents(_)) ==
    /\ \A i \in FlatIdx :
          /\ IsTopLevel(i) <=> parents(i) = {}
          /\ \A j \in FlatIdx \ {i} : IsAttached(i, j) <=> j \in parents(i)
    /\ (\A i \in FlatIdx : parents(i) = {}) =>
          /\ Len(tree) = Len(flat)
          /\ \A k \in 1..Len(tree) : tree[k].children = <<>>

IsToken(part, suffix) ==
    /\ StartsWith(part, <<":">>) /\ EndsWith(part, suffix)
    /\ IsWord(SubSeq(part, 2, Len(part) - Len(suffix)))

\* The score the claim gives the part at 0-based position i.
StatedPartScore(part, i) ==
    IF IsToken(part, <<"+">>) THEN 10000 + i
    ELSE IF IsToken(part, <<"*">>) THEN 20000 + i
    ELSE IF IsToken(part, <<>>) THEN 100 + i
    ELSE 0

RECURSIVE StatedSum(_, _)
StatedSum(parts, n) ==
    IF n = 0 THEN 0 ELSE StatedSum(parts, n - 1) + StatedPartScore(parts[n], n - 1)

StatedScore(pattern) ==
    LET parts == PatternParts(pattern) IN StatedSum(parts, Len(parts))

\* C9: the top-level list is in ascending order of the precedence score
\* (static 0, dynamic 100+i, catch-all 10000+i, optional catch-all 20000+i,
\* summed over the segments), equal scores in the order of the pattern
\* strings; about, [id], [...slug] always come out as /about, /:id, /:slug+.
C9_TopLevelOrderedByScore ==
    pc = "scanned" =>
        \A k \in 1..(Len(tree) - 1) :
            \/ StatedScore(tree[k].pattern) < StatedScore(tree[k + 1].pattern)
            \/ /\ StatedScore(tree[k].pattern) = StatedScore(tree[k + 1].pattern)
               /\ LocaleCompare(tree[k].pattern, tree[k + 1].pattern) <= 0

\* C10: for every path u other than "/", u, u + "/" and u + "?" + q match
\* the same route with the same params; "/" is not stripped and "/?" + q
\* matches as "/".
C10_SlashAndQueryIgnored ==
    pc = "scanned" =>
        /\ \A u \in (BaseUrls \cup {b \o <<Slash>> : b \in BaseUrls}) \ {Str_root} :
              /\ MatchRoute(u \o <<Slash>>, tree) = MatchRoute(u, tree)
              /\ \A q \in Queries :
                    MatchRoute(u \o <<"?">> \o q, tree) = MatchRoute(u, tree)
        /\ UrlNormalized(Str_root) = Str_root
        /\ \A q \in Queries :
              MatchRoute(Str_root \o <<"?">> \o q, tree) = MatchRoute(Str_root, tree)

\* C10 witness: /users/5/ was matched to the child :id of /users with
\* id = 5, as /users/5 and /users/5?x=1 are.
C10_Witness ==
    /\ pc = "matched"
    /\ url = Str_users5 \o <<Slash>>
    /\ result.found
    /\ result.route.pattern = <<":", "i", "d">>
    /\ result.params = << [name |-> <<"i", "d">>, kind |-> "scalar", v |-> << <<"5">> >>] >>
    /\ result = MatchRoute(Str_users5, tree)
    /\ result = MatchRoute(Str_users5 \o <<"?", "x", "=", "1">>, tree)

(***************************************************************************)
(* Part III.  Server endpoints (packages/vinuxt/src/server/api-handler.ts) *)
(*            and the two matchPattern functions side by side.             *)
(*            Specifications: SpecApi, SpecMatch.                          *)
(***************************************************************************)

\* Bound of the endpoint model: the number of files under server/api.
MaxApiFiles == 2

Get == <<"g", "e", "t">>
Post == <<"p", "o", "s", "t">>
Put == <<"p", "u", "t">>
Delete == <<"d", "e", "l", "e", "t", "e">>
Patch == <<"p", "a", "t", "c", "h">>
HeadMethod == <<"h", "e", "a", "d">>
Options == <<"o", "p", "t", "i", "o", "n", "s">>

\* lines 29-37
HTTP_METHODS == {Get, Post, Put, Delete, Patch, HeadMethod, Options}

UpperCase ==
    <<"A","B","C","D","E","F","G","H","I","J","K","L","M","N","O","P","Q","R",
      "S","T","U","V","W","X","Y","Z">>
LowerCase ==
    <<"a","b","c","d","e","f","g","h","i","j","k","l","m","n","o","p","q","r",
      "s","t","u","v","w","x","y","z">>

\* String.prototype.toLowerCase on ASCII text
ToLowerCase(str) ==
    [i \in 1..Len(str) |->
        IF \E k \in 1..26 : UpperCase[k] = str[i]
          THEN LowerCase[CHOOSE k \in 1..26 : UpperCase[k] = str[i]]
          ELSE str[i]]

\* The extensions of /\.(ts|js)$/ and of the glob {ts,js}
ApiExtensions == { <<".", "t", "s">>, <<".", "j", "s">> }

HasApiExtension(name) == \E e \in ApiExtensions : EndsWith(name, e)

\* name.replace(/\.(ts|js)$/, "")
RemoveTsJs(name) ==
    IF HasApiExtension(name) THEN SubSeq(name, 1, Len(name) - 3) ELSE name

\* null: no method constraint
NoMethod == <<>>

\* A mutant of extractHttpMethod: the candidate is compared as it is written.
ExtractHttpMethodCaseSensitive(filename) ==
    LET parts == Split(RemoveTsJs(filename), ".")
    IN IF Len(parts) < 2 THEN NoMethod
       ELSE IF parts[Len(parts)] \in HTTP_METHODS THEN parts[Len(parts)]
       ELSE NoMethod

\* extractHttpMethod(filename)
ExtractHttpMethod(filename) ==
    LET name_without_ext == RemoveTsJs(filename)
        parts == Split(name_without_ext, ".")
    IN IF Len(parts) < 2 THEN NoMethod
       ELSE LET method_candidate == ToLowerCase(parts[Len(parts)])
            IN IF method_candidate \in HTTP_METHODS THEN method_candidate
               ELSE NoMethod

\* A mutant of the suffix removal: a last segment that is only a verb is
\* emptied too.
StripMethodSuffixAlways(segments) ==
    LET parts_last == Split(segments[Len(segments)], ".")
    IN IF ToLowerCase(parts_last[Len(parts_last)]) \in HTTP_METHODS
         THEN [segments EXCEPT ![Len(segments)] =
                  Join(SubSeq(parts_last, 1, Len(parts_last) - 1), ".")]
         ELSE segments

\* filePathToRoutePattern lines 109-117
StripMethodSuffix(segments) ==
    LET segment_last == segments[Len(segments)]
        parts_last == Split(segment_last, ".")
    IN IF Len(parts_last) >= 2
            /\ ToLowerCase(parts_last[Len(parts_last)]) \in HTTP_METHODS
         THEN [segments EXCEPT ![Len(segments)] =
                  Join(SubSeq(parts_last, 1, Len(parts_last) - 1), ".")]
         ELSE segments

\* filePathToRoutePattern lines 125-139, the value the map callback returns
ApiSegmentUrl(segment) ==
    IF MatchCatchAll(segment) THEN <<":">> \o Inner(segment, 4, 1) \o <<"+">>
    ELSE IF MatchDynamic(segment) THEN <<":">> \o Inner(segment, 1, 1)
    ELSE segment

Api == <<"a", "p", "i">>
Routes == <<"r", "o", "u", "t", "e", "s">>
Server == <<"s", "e", "r", "v", "e", "r">>
DirTypes == {Api, Routes}

\* `server/${dir_type}/`
ServerPrefix(dir_type) == Server \o <<Slash>> \o dir_type \o <<Slash>>

\* filePathToRoutePattern(file_relative, dir_type)
FilePathToRoutePattern(file_relative, dir_type) ==
    LET prefix == ServerPrefix(dir_type)
        stripped == IF StartsWith(file_relative, prefix)
                      THEN SubSeq(file_relative, Len(prefix) + 1, Len(file_relative))
                      ELSE file_relative
        without_ext == RemoveTsJs(stripped)
        segments == DropIndex(StripMethodSuffix(Split(without_ext, Slash)))
        segments_url == [i \in 1..Len(segments) |-> ApiSegmentUrl(segments[i])]
        route_path == Join(segments_url, Slash)
    IN IF dir_type = Api
         THEN IF route_path # <<>> THEN <<Slash>> \o Api \o <<Slash>> \o route_path
              ELSE <<Slash>> \o Api
         ELSE IF route_path # <<>> THEN <<Slash>> \o route_path
              ELSE <<Slash>>

Proto == <<"_", "_", "p", "r", "o", "t", "o", "_", "_">>

\* params[name] = v on the plain object `{}` of line 185: assigning a string
\* to __proto__ adds no property.
ApiPutParam(params, name, v) ==
    IF name = Proto THEN params ELSE PutParam(params, name, "scalar", <<v>>)

\* The loop of matchPattern of api-handler.ts from pattern segment i (1-based) on.
RECURSIVE ApiMatchSegments(_, _, _, _)
ApiMatchSegments(segments_pattern, segments_path, i, params) ==
    IF i > Len(segments_pattern)
      THEN IF Len(segments_pattern) # Len(segments_path) THEN Null
           ELSE Params(params)
      ELSE LET seg == segments_pattern[i]
           IN IF StartsWith(seg, <<":">>) /\ EndsWith(seg, <<"+">>)
                THEN IF i > Len(segments_path) THEN Null
                     ELSE Params(ApiPutParam(params, SubSeq(seg, 2, Len(seg) - 1),
                              Join(SubSeq(segments_path, i, Len(segments_path)),
                                   Slash)))
              ELSE IF StartsWith(seg, <<":">>)
                THEN IF i > Len(segments_path) THEN Null
                     ELSE ApiMatchSegments(segments_pattern, segments_path, i + 1,
                              ApiPutParam(params, SubSeq(seg, 2, Len(seg)),
                                          segments_path[i]))
              ELSE IF i > Len(segments_path) \/ seg # segments_path[i] THEN Null
                   ELSE ApiMatchSegments(segments_pattern, segments_path, i + 1,
                                         params)

\* matchPattern(pattern, pathname) of api-handler.ts
ApiMatchPattern(pat, pathname) ==
    ApiMatchSegments(FilterBoolean(Split(pat, Slash)),
                     FilterBoolean(Split(pathname, Slash)), 1, <<>>)

NoApiRoute == [pattern |-> <<>>, file_path |-> <<>>, method |-> NoMethod]
NoApiMatch == [found |-> FALSE, route |-> NoApiRoute, params |-> <<>>]
ApiFound(route, params) == [found |-> TRUE, route |-> route, params |-> params]

\* The loop of matchApiRoute (lines 162-170) from route r on.
RECURSIVE MatchApiRoutesFrom(_, _, _, _)
MatchApiRoutesFrom(pathname, method_lower, routes, r) ==
    IF r > Len(routes) THEN NoApiMatch
    ELSE LET route == routes[r]
         IN IF route.method # NoMethod /\ route.method # method_lower
              THEN MatchApiRoutesFrom(pathname, method_lower, routes, r + 1)
            ELSE LET params == ApiMatchPattern(route.pattern, pathname)
                 IN IF params.ok THEN ApiFound(route, params.params)
                    ELSE MatchApiRoutesFrom(pathname, method_lower, routes, r + 1)

\* A mutant of matchApiRoute: the method constraint is not looked at.
MatchApiRouteAnyMethod(pathname, method, routes) ==
    MatchApiRoutesFrom(pathname, NoMethod,
        [r \in 1..Len(routes) |-> [routes[r] EXCEPT !.method = NoMethod]], 1)

\* matchApiRoute(pathname, method, routes)
MatchApiRoute(pathname, method, routes) ==
    MatchApiRoutesFrom(pathname, ToLowerCase(method), routes, 1)

\* A directory of the project: absent, or present with the files below it
\* (paths relative to it) in the order a walk yields them.
Missing == [exists |-> FALSE, files |-> <<>>]
Present(fs) == [exists |-> TRUE, files |-> fs]

\* What a glob walk with cwd: dir finds below dir: a directory that cannot be
\* read yields no entry.
DirEntries(dir) == IF dir.exists THEN dir.files ELSE <<>>

\* glob("**/*.{ts,js}", { cwd: dir })
ApiGlob(dir) == SelectSeq(DirEntries(dir), HasApiExtension)

Root == <<"/", "r">>

\* scanApiRoutes lines 238-249: the record pushed for one file
ApiRouteOf(root, type, file) ==
    [pattern |-> FilePathToRoutePattern(ServerPrefix(type) \o file, type),
     file_path |-> PathJoin(PathJoin(PathJoin(root, Server), type), file),
     method |-> ExtractHttpMethod(Basename(file))]

\* scanApiRoutes lines 235-250: the records of one directory
ScanApiDir(root, type, dir) ==
    IF ~dir.exists THEN <<>>
    ELSE LET globbed == ApiGlob(dir)
         IN [i \in 1..Len(globbed) |-> ApiRouteOf(root, type, globbed[i])]

\* A mutant of dirs_to_scan: server/routes is left out.
DirsToScanApiOnly(proj) == << [dir |-> proj.api, type |-> Api] >>

\* lines 229-232: dirs_to_scan
DirsToScan(proj) ==
    << [dir |-> proj.api, type |-> Api], [dir |-> proj.routes, type |-> Routes] >>

\* scanApiRoutes(root)
ScanApiRoutes(root, proj) ==
    LET dirs_to_scan == DirsToScan(proj)
        RECURSIVE Scan(_)
        Scan(k) == IF k > Len(dirs_to_scan) THEN <<>>
                   ELSE ScanApiDir(root, dirs_to_scan[k].type, dirs_to_scan[k].dir)
                            \o Scan(k + 1)
    IN Scan(1)

(***************************************************************************)
(* The inputs of the endpoint model and of the direct-match model          *)
(***************************************************************************)

Js == <<".", "j", "s">>
Health == <<"h", "e", "a", "l", "t", "h">>
WithSuffix(name, suffix) == name \o <<".">> \o suffix
UpperGet == <<"G", "E", "T">>
Foo == <<"f", "o", "o">>

\* The files of server/api and server/routes in the endpoint model.
ApiFiles ==
    { File(<<WithSuffix(Users, Get)>>, Ts), File(<<WithSuffix(Users, Post)>>, Ts),
      File(<<Users>>, Ts), File(<<Users, BrId>>, Ts), File(<<BrSlug>>, Js),
      File(<<Index>>, Ts), File(<<Users>>, Md) }
RoutesFiles ==
    { File(<<Health>>, Ts), File(<<WithSuffix(Users, Get)>>, Js),
      File(<<PlusName>>, Ts) }

OptionalDirs(universe, n) ==
    {Missing} \cup {Present(l) : l \in FileLists(universe, n)}

\* Project roots with a few files in each of the three directories.
SmallProjects ==
    { [pages |-> p, api |-> a, routes |-> r] :
        p \in OptionalDirs({File(<<About>>, Vue)}, 1),
        a \in OptionalDirs(ApiFiles, MaxApiFiles),
        r \in OptionalDirs(RoutesFiles, 1) }

\* The segments of the single-file endpoint derivations.
ApiDeriveSegments ==
    { Users, Index, Get, BrId, BrSlug, BrOptSlug, OpenBracket,
      WithSuffix(Users, Get), WithSuffix(Users, UpperGet),
      WithSuffix(Index, Get), WithSuffix(<<>>, Get),
      WithSuffix(WithSuffix(Users, Get), Post), WithSuffix(Users, Foo),
      WithSuffix(BrId, Delete) }
ApiDeriveFiles ==
    { File(segs, e) :
        segs \in UNION {[1..k -> ApiDeriveSegments] : k \in 1..MaxDepth},
        e \in ApiExtensions }

\* Project roots with one handler file, under server/api or server/routes.
DeriveProjects ==
    { [pages |-> Missing, api |-> Present(<<f>>), routes |-> Missing] :
        f \in ApiDeriveFiles }
    \cup { [pages |-> Missing, api |-> Missing, routes |-> Present(<<f>>)] :
             f \in ApiDeriveFiles }

ApiPrefix == <<Slash>> \o Api
Str_apiUsers == ApiPrefix \o <<Slash>> \o Users
Str_apiUsers5 == Str_apiUsers \o <<"/", "5">>
Str_apiUsers5x == Str_apiUsers5 \o <<"/", "x">>
Str_health == <<Slash>> \o Health

\* The pathnames and methods handed to matchApiRoute.
ApiPathnames ==
    { ApiPrefix, Str_apiUsers, Str_apiUsers \o <<Slash>>, Str_apiUsers5,
      Str_apiUsers5x, Str_health, Str_users, Str_root }
ApiMethods ==
    { UpperGet, Get, <<"P", "O", "S", "T">>, <<"D", "e", "l", "e", "t", "e">>,
      <<"P", "A", "T", "C", "H">> }

\* scanPageRoutes(pagesDir) on the pages directory of the project
ScanPagesStep ==
    /\ pc = "start"
    /\ files' = DirEntries(project.pages)
    /\ flat' = FlatRoutes(Glob(DirEntries(project.pages)), PagesDir)
    /\ tree' = ScanPageRoutes(DirEntries(project.pages), PagesDir)
    /\ pc' = "scanned"
    /\ UNCHANGED <<url, result, cacheVars, apiVars>>

\* scanApiRoutes(root)
ScanApiStep ==
    /\ pc = "start"
    /\ apiRoutes' = ScanApiRoutes(Root, project)
    /\ pc' = "apiScanned"
    /\ UNCHANGED <<files, flat, tree, url, result, cacheVars, patternArg, matched,
                   apiMatched, project, request, response>>

\* matchApiRoute(pathname, method, routes) on the scanned list
MatchApiStep(pathname, method) ==
    /\ pc = "apiScanned"
    /\ request' = [pathname |-> pathname, method |-> method]
    /\ response' = MatchApiRoute(pathname, method, apiRoutes)
    /\ pc' = "apiMatched"
    /\ UNCHANGED <<files, flat, tree, url, result, cacheVars, patternArg, matched,
                   apiMatched, project, apiRoutes>>

InitApi ==
    /\ pc = "start"
    /\ project \in SmallProjects \cup DeriveProjects
    /\ files = <<>> /\ flat = <<>> /\ tree = <<>> /\ url = <<>> /\ result = NoMatch
    /\ patternArg = <<>> /\ matched = Null /\ apiMatched = Null
    /\ apiRoutes = <<>>
    /\ request = [pathname |-> <<>>, method |-> <<>>]
    /\ response = NoApiMatch
    /\ CacheIdle

NextApi ==
    \/ ScanPagesStep
    \/ ScanApiStep
    \/ \E pathname \in ApiPathnames, method \in ApiMethods :
          MatchApiStep(pathname, method)

SpecApi == InitApi /\ [][NextApi]_vars

\* The segments of the files whose patterns the direct matches are tried on.
MatchSegments == {About, Users, BrId, BrSlug, BrOptSlug, PlusName}
MatchSegmentLists == UNION {[1..k -> MatchSegments] : k \in 1..MaxDepth}

\* The patterns fileToRoute derives from page files ...
PagePatterns ==
    { FileToRoute(File(segs, Vue), PagesDir).pattern :
        segs \in MatchSegmentLists \cup {<<Index>>} }

\* ... and filePathToRoutePattern from handler files.
EndpointPatterns ==
    { FilePathToRoutePattern(ServerPrefix(t) \o File(segs, Ts), t) :
        segs \in MatchSegmentLists \cup {<<Index>>}, t \in DirTypes }

\* The (normalized) paths the patterns are matched against.
MatchPaths ==
    { Str_root, Str_about, Str_users, Str_users5, Str_users5x,
      <<Slash>> \o About \o <<Slash>> \o Users, <<Slash>> \o PlusName,
      ApiPrefix, ApiPrefix \o Str_about, Str_apiUsers5, Str_apiUsers5x }

\* matchPattern(url, pattern) of router.ts
PageMatchStep ==
    /\ pc \in {"start", "api"}
    /\ matched' = MatchPattern(url, patternArg)
    /\ pc' = IF pc = "start" THEN "page" ELSE "both"
    /\ UNCHANGED <<files, flat, tree, url, result, cacheVars, patternArg,
                   apiMatched, project, apiRoutes, request, response>>

\* matchPattern(pattern, pathname) of api-handler.ts
ApiMatchStep ==
    /\ pc \in {"start", "page"}
    /\ apiMatched' = ApiMatchPattern(patternArg, url)
    /\ pc' = IF pc = "start" THEN "api" ELSE "both"
    /\ UNCHANGED <<files, flat, tree, url, result, cacheVars, patternArg,
                   matched, project, apiRoutes, request, response>>

InitMatch ==
    /\ pc = "start"
    /\ patternArg \in PagePatterns \cup EndpointPatterns
    /\ url \in MatchPaths
    /\ matched = Null /\ apiMatched = Null
    /\ files = <<>> /\ flat = <<>> /\ tree = <<>> /\ result = NoMatch
    /\ project = <<>> /\ apiRoutes = <<>> /\ request = <<>> /\ response = <<>>
    /\ CacheIdle

NextMatch == PageMatchStep \/ ApiMatchStep

SpecMatch == InitMatch /\ [][NextMatch]_vars

(***************************************************************************)
(* Properties of the direct match (specification SpecMatch)                *)
(***************************************************************************)

\* The kind of a pattern segment: the tokens :name+, :name*, :name, and
\* static for everything else.
SegmentKind(part) ==
    IF IsToken(part, <<"+">>) THEN "catchAll"
    ELSE IF IsToken(part, <<"*">>) THEN "optionalCatchAll"
    ELSE IF IsToken(part, <<>>) THEN "dynamic"
    ELSE "static"

UrlParts(u) == FilterBoolean(Split(u, Slash))

\* The match condition as C11 states it, segment by segment.
StatedDirectMatch(pp, pu) ==
    /\ \A k \in 1..Len(pp) :
          CASE SegmentKind(pp[k]) = "static" -> k <= Len(pu) /\ pu[k] = pp[k]
            [] SegmentKind(pp[k]) = "dynamic" -> k <= Len(pu)
            [] SegmentKind(pp[k]) = "catchAll" -> Len(pu) >= k
            [] OTHER -> TRUE
    /\ (\A k \in 1..Len(pp) : SegmentKind(pp[k]) \in {"static", "dynamic"})
           => Len(pp) = Len(pu)

\* C11: a direct page match of a pattern and a URL succeeds exactly when,
\* segment by segment from the left, every static segment equals the URL
\* segment at its position, every dynamic segment has a URL segment, a
\* catch-all has at least one URL segment left, an optional catch-all any
\* number, and without a catch-all both have the same number of segments.
C11_DirectMatchDecision ==
    pc \in {"page", "both"} =>
        (matched.ok <=> StatedDirectMatch(UrlParts(patternArg), UrlParts(url)))

\* The parameter name of a token.
TokenName(part) ==
    IF SegmentKind(part) = "dynamic" THEN SubSeq(part, 2, Len(part))
    ELSE SubSeq(part, 2, Len(part) - 1)

\* The bindings C12 states: one per parameter token, from left to right.
RECURSIVE StatedBindings(_, _, _)
StatedBindings(pp, pu, k) ==
    IF k > Len(pp) THEN <<>>
    ELSE (CASE SegmentKind(pp[k]) = "static" -> <<>>
            [] SegmentKind(pp[k]) = "dynamic" ->
                 << [name |-> TokenName(pp[k]), kind |-> "scalar",
                     v |-> SubSeq(pu, k, k)] >>
            [] OTHER ->
                 << [name |-> TokenName(pp[k]), kind |-> "list",
                     v |-> SubSeq(pu, k, Len(pu))] >>)
         \o StatedBindings(pp, pu, k + 1)

\* C12: on a successful page match params has exactly one key per parameter
\* token of the pattern: a dynamic token bound to the URL segment at its
\* position as a scalar, a catch-all token to the list of all remaining URL
\* segments (at least one), an optional catch-all to the possibly empty list
\* of remaining segments.
C12_OneBindingPerToken ==
    (pc \in {"page", "both"} /\ matched.ok) =>
        /\ matched.params = StatedBindings(UrlParts(patternArg), UrlParts(url), 1)
        /\ \A k \in 1..Len(matched.params) :
              /\ matched.params[k].kind = "scalar" => Len(matched.params[k].v) = 1
              /\ (matched.params[k].kind = "list"
                    /\ EndsWith(patternArg, <<"+">>)) => Len(matched.params[k].v) >= 1

(***************************************************************************)
(* Properties of matchRoute on scanned trees (specification SpecRoutes)    *)
(***************************************************************************)

\* The child's full pattern matches the path.
FullMatches(u, parent, k) ==
    MatchPattern(u, PatternFull(parent, parent.children[k])).ok

\* What C13 states for a parent whose own pattern matches: its first
\* matching child, else the parent itself.
StatedOutcome(u, parent) ==
    IF \E k \in 1..Len(parent.children) : FullMatches(u, parent, k)
      THEN parent.children[CHOOSE k \in 1..Len(parent.children) :
               /\ FullMatches(u, parent, k)
               /\ \A j \in 1..(k - 1) : ~FullMatches(u, parent, j)]
      ELSE parent

\* The top-level route yields a result for the path: by its own pattern, or
\* as a prefix of the path through one of its children.
Yields(u, route) ==
    \/ MatchPattern(u, route.pattern).ok
    \/ /\ route.children # <<>>
       /\ StartsWith(u, IF route.pattern = <<Slash>> THEN <<Slash>>
                        ELSE route.pattern \o <<Slash>>)
       /\ \E k \in 1..Len(route.children) : FullMatches(u, route, k)

\* C13 as stated: whenever the URL matches the own pattern of a route with
\* children, match returns that route's first child whose full pattern
\* matches the URL (the child "" standing for the parent pattern, so an
\* index child wins), and the parent itself only when no child matches.
C13_ChildrenOfAnyMatchingParent ==
    pc = "matched" =>
        \A i \in 1..Len(tree) :
            (tree[i].children # <<>>
                /\ MatchPattern(UrlNormalized(url), tree[i].pattern).ok)
            => /\ result.found
               /\ result.route = StatedOutcome(UrlNormalized(url), tree[i])

\* C13 amended: the same for the first top-level route that yields a result
\* for the URL, i.e. when no route before it in the top-level order matches
\* the URL itself or through a child.
C13_ChildrenOfFirstMatchingParent ==
    pc = "matched" =>
        \A i \in 1..Len(tree) :
            (tree[i].children # <<>>
                /\ MatchPattern(UrlNormalized(url), tree[i].pattern).ok
                /\ \A j \in 1..(i - 1) : ~Yields(UrlNormalized(url), tree[j]))
            => /\ result.found
               /\ result.route = StatedOutcome(UrlNormalized(url), tree[i])

\* C13 witness: with users, users/index and users/[id] scanned, /users was
\* matched to the index child of /users and not to /users itself.
C13_Witness ==
    /\ pc = "matched"
    /\ url = Str_users
    /\ Len(tree) = 1
    /\ Len(tree[1].children) = 2
    /\ result.found
    /\ result.route.pattern = <<>>
    /\ result.route.filePath = PathJoin(PagesDir, File(<<Users, Index>>, Vue))

\* Does the path fail to percent-decode after normalisation?
DecodeFails(u) == ~DecodeURIComponent(StripTrailingSlash(Pathname(u))).ok

\* The routes of a tree: the top-level routes and their children.
TreeRoutes(routes) ==
    {routes[i] : i \in 1..Len(routes)}
    \cup UNION {{routes[i].children[k] : k \in 1..Len(routes[i].children)} :
                  i \in 1..Len(routes)}

\* C19: match never raises: when percent-decoding of the normalized path
\* fails, the raw normalized path is matched, and the outcome is an ordinary
\* result: no match, or a route of the tree with its params.
C19_MalformedEscapeMatchedRaw ==
    (pc = "matched" /\ DecodeFails(url)) =>
        /\ result = MatchRoutesFrom(StripTrailingSlash(Pathname(url)), tree, 1)
        /\ result = NoMatch \/ (result.found /\ result.route \in TreeRoutes(tree))

\* C19 witness: with users and users/[id] scanned, /users/% was matched to
\* the child :id with id bound to the raw "%".
C19_Witness ==
    /\ pc = "matched"
    /\ url = Str_malformed
    /\ DecodeFails(url)
    /\ result.found
    /\ result.route.pattern = <<":", "i", "d">>
    /\ result.params = << [name |-> <<"i", "d">>, kind |-> "scalar", v |-> << <<"%">> >>] >>

(***************************************************************************)
(* Properties of the endpoint pipeline (specification SpecApi)             *)
(***************************************************************************)

\* The request method equals the recorded one, letter case aside.
SameMethod(recorded, requested) == ToLowerCase(recorded) = ToLowerCase(requested)

\* The route may serve the request: no recorded method, or the same one.
Eligible(route, requested) ==
    route.method = NoMethod \/ SameMethod(route.method, requested)

UsersGetFile == File(<<WithSuffix(Users, Get)>>, Ts)
UsersPostFile == File(<<WithSuffix(Users, Post)>>, Ts)

\* C14: matchEndpoint never returns a route whose recorded method is set and
\* differs, letter case aside, from the request method; a route without a
\* recorded method serves every request method; with a get and a post route
\* on one pattern a GET request returns the get route and a DELETE request
\* returns no match.
C14_MethodConstraintRespected ==
    pc = "apiMatched" =>
        /\ response.found => Eligible(response.route, request.method)
        /\ \A k \in 1..Len(apiRoutes) :
              (apiRoutes[k].method = NoMethod
                  /\ ApiMatchPattern(apiRoutes[k].pattern, request.pathname).ok)
              => response.found
        /\ (/\ project.api.exists
            /\ project.api.files \in {<<UsersGetFile, UsersPostFile>>,
                                      <<UsersPostFile, UsersGetFile>>}
            /\ request.pathname = Str_apiUsers)
           => /\ request.method \in {UpperGet, Get}
                    => response.found /\ response.route.method = Get
              /\ request.method = <<"D", "e", "l", "e", "t", "e">> => ~response.found

\* C14 witness: the list holds the post route before the get route of
\* /api/users, and a GET request was given the get route.
C14_Witness ==
    /\ pc = "apiMatched"
    /\ project.api.exists
    /\ project.api.files = <<UsersPostFile, UsersGetFile>>
    /\ request = [pathname |-> Str_apiUsers, method |-> UpperGet]
    /\ response.found
    /\ response.route.method = Get
    /\ response.route.pattern = Str_apiUsers

\* The verb each last piece of the model's file names stands for.
ExpectedVerb(piece) ==
    CASE piece \in {Get, UpperGet} -> Get
      [] piece = Post -> Post
      [] piece = Delete -> Delete
      [] OTHER -> NoMethod

\* The token each segment of the model's handler files is to become.
ExpectedEndpointToken(seg) ==
    CASE seg = BrId -> <<":", "i", "d">>
      [] seg = BrSlug -> <<":", "s", "l", "u", "g", "+">>
      [] OTHER -> seg

\* The steps of C15 on a file path relative to its endpoint directory.  With
\* needsTwoPieces the verb is removed only from a final segment of at least
\* two dot-separated pieces; stripVerb = FALSE leaves the verb step out.
StatedEndpointPattern(file, kind, stripVerb, needsTwoPieces) ==
    LET segs == Split(SubSeq(file, 1, Len(file) - 3), Slash)
        pieces == Split(segs[Len(segs)], ".")
        strip == /\ stripVerb
                 /\ ExpectedVerb(pieces[Len(pieces)]) # NoMethod
                 /\ needsTwoPieces => Len(pieces) >= 2
        noVerb == IF strip
                    THEN SubSeq(segs, 1, Len(segs) - 1)
                           \o <<Join(SubSeq(pieces, 1, Len(pieces) - 1), ".")>>
                    ELSE segs
        noIndex == IF noVerb[Len(noVerb)] = Index
                     THEN SubSeq(noVerb, 1, Len(noVerb) - 1) ELSE noVerb
        tokens == [i \in 1..Len(noIndex) |-> ExpectedEndpointToken(noIndex[i])]
        rest == Join(tokens, Slash)
    IN IF kind = Api
         THEN IF rest = <<>> THEN <<"/", "a", "p", "i">>
              ELSE <<"/", "a", "p", "i", "/">> \o rest
         ELSE <<Slash>> \o rest

\* The endpoint directory a record's file lies in, and the file's path
\* relative to that directory.
DirOf(kind) == Root \o <<Slash>> \o Server \o <<Slash>> \o kind \o <<Slash>>
KindOf(route) == IF StartsWith(route.file_path, DirOf(Api)) THEN Api ELSE Routes
FileOf(route) ==
    SubSeq(route.file_path, Len(DirOf(KindOf(route))) + 1, Len(route.file_path))

ApiScanned == pc \in {"apiScanned", "apiMatched"}

\* C15 as stated: the pattern is prefix and extension removed, then the last
\* dot-separated piece of the final segment removed when it is an HTTP verb
\* in any letter case, then a final "index" dropped, [name] and [...name]
\* rewritten and everything else kept, then "/api/" or "/" put in front
\* ("/api" or "/" for an empty rest).
C15_PatternBySteps ==
    ApiScanned =>
        \A k \in 1..Len(apiRoutes) :
            apiRoutes[k].pattern =
                StatedEndpointPattern(FileOf(apiRoutes[k]), KindOf(apiRoutes[k]),
                                      TRUE, FALSE)

\* C15 amended: the verb piece is removed only when the final segment has at
\* least two dot-separated pieces; a file named after a verb alone (get.ts)
\* keeps its name.
C15_PatternByStepsTwoPieces ==
    ApiScanned =>
        \A k \in 1..Len(apiRoutes) :
            apiRoutes[k].pattern =
                StatedEndpointPattern(FileOf(apiRoutes[k]), KindOf(apiRoutes[k]),
                                      TRUE, TRUE)

\* C15 witness: server/api/users/index.get.ts was scanned to /api/users.
C15_Witness ==
    /\ pc = "apiScanned"
    /\ project.api.exists
    /\ project.api.files = << File(<<Users, WithSuffix(Index, Get)>>, Ts) >>
    /\ Len(apiRoutes) = 1
    /\ apiRoutes[1].pattern = Str_apiUsers

\* C16: extractMethod gives the lower-cased last dot-separated piece of the
\* file name without its extension when the name has at least two pieces
\* and the piece is an HTTP verb in any letter case, otherwise none; and it
\* gives a verb exactly for the files whose pattern had a verb piece removed.
C16_MethodIsTrailingVerb ==
    ApiScanned =>
        \A k \in 1..Len(apiRoutes) :
            LET file == FileOf(apiRoutes[k])
                name == Basename(file)
                pieces == Split(SubSeq(name, 1, Len(name) - 3), ".")
            IN /\ apiRoutes[k].method =
                     (IF Len(pieces) >= 2 THEN ExpectedVerb(pieces[Len(pieces)])
                      ELSE NoMethod)
               /\ apiRoutes[k].method # NoMethod
                     <=> apiRoutes[k].pattern #
                            StatedEndpointPattern(file, KindOf(apiRoutes[k]),
                                                  FALSE, TRUE)

\* C16 witness: server/api/users.GET.js was scanned to the method get and
\* the pattern /api/users.
C16_Witness ==
    /\ pc = "apiScanned"
    /\ project.api.exists
    /\ project.api.files = << File(<<WithSuffix(Users, UpperGet)>>, Js) >>
    /\ Len(apiRoutes) = 1
    /\ apiRoutes[1].method = Get
    /\ apiRoutes[1].pattern = Str_apiUsers

\* The handler files of a directory: its .ts and .js files.
HandlerFiles(dir) ==
    {i \in 1..Len(dir.files) : EndsWith(dir.files[i], Ts) \/ EndsWith(dir.files[i], Js)}

\* The list holds exactly one record per handler file of the directory.
OneRecordPerHandler(dir, kind) ==
    /\ Len(apiRoutes) = Cardinality(HandlerFiles(dir))
    /\ \A i \in HandlerFiles(dir) :
          Cardinality({k \in 1..Len(apiRoutes) :
              apiRoutes[k].file_path = DirOf(kind) \o dir.files[i]}) = 1

JoinedLists(params) ==
    [k \in 1..Len(params) |->
        IF params[k].kind = "list"
          THEN [name |-> params[k].name, kind |-> "scalar",
                v |-> <<Join(params[k].v, Slash)>>]
          ELSE params[k]]

\* C17: on an endpoint pattern matchEndpoint's matcher decides match or no
\* match as the page direct match does, and binds the same params except
\* that a catch-all is bound to the remaining segments joined with "/".
C17_EndpointMatchesAsPageMatch ==
    (pc = "both" /\ patternArg \in EndpointPatterns) =>
        /\ apiMatched.ok = matched.ok
        /\ matched.ok => apiMatched.params = JoinedLists(matched.params)

(***************************************************************************)
(* One walk per directory (specification Spec)                             *)
(***************************************************************************)

\* The walks of a directory that have not resolved yet.
PendingWalks(d) == {w \in 1..Len(walks) : walks[w].dir = d /\ walks[w].state = "pending"}

\* C20: in every reachable state at most one filesystem walk of a directory
\* is in flight.
C20_AtMostOneWalkInFlight == \A d \in Dirs : Cardinality(PendingWalks(d)) <= 1

\* The number of invalidate(dir) calls made before the walk was started.
WalkEpoch(w) ==
    calls[CHOOSE o \in 1..Len(calls) : calls[o].own /\ calls[o].promise = w].callEpoch

\* C21: an invalidate(dir) issued while a scan of dir is in flight takes
\* effect: every scan(dir) call made after it is handed the result of a walk
\* that began after it, and the cache never holds again the result of a walk
\* that began before it.
C21_InvalidateDuringScanTakesEffect ==
    /\ \A c \in 1..Len(calls) : WalkEpoch(calls[c].promise) = calls[c].callEpoch
    /\ \A d \in Dirs :
          Cached(routeCache, d) => WalkEpoch(routeCache[d].promise) = invCount[d]

(***************************************************************************)
(* Part IV.  Page directories with files two levels below a layout file.   *)
(*           Specification: SpecDeep.                                      *)
(***************************************************************************)

\* Bound of the deep-directory model: the number of page files.
MaxDeepFiles == 4

\* users.vue, the directory users/ with about.vue and [...slug].vue, and the
\* directory users/about/ with index.vue, [id].vue and about.vue.
DeepFiles ==
    { File(<<Users>>, Vue), File(<<Users, About>>, Vue),
      File(<<Users, BrSlug>>, Vue), File(<<Users, About, Index>>, Vue),
      File(<<Users, About, BrId>>, Vue), File(<<Users, About, About>>, Vue) }

Str_usersAbout == Str_users \o Str_about
Str_usersAboutAbout == Str_usersAbout \o Str_about

DeepUrls ==
    { Str_users, Str_users5, Str_usersAbout, Str_usersAboutAbout,
      Str_usersAbout \o <<"/", "5">> }

InitDeep ==
    /\ pc = "start"
    /\ files \in FileLists(DeepFiles, MaxDeepFiles)
    /\ flat = <<>> /\ tree = <<>> /\ url = <<>> /\ result = NoMatch
    /\ CacheIdle
    /\ ApiIdle

NextDeep == ScanStep \/ \E u \in DeepUrls : MatchStep(u)

SpecDeep == InitDeep /\ [][NextDeep]_vars

(***************************************************************************)
(* Properties of deep trees (specification SpecDeep)                       *)
(***************************************************************************)

\* The score of a pattern that may be relative (no leading slash).
RelativeScore(pattern) ==
    LET parts == UrlParts(pattern) IN StatedSum(parts, Len(parts))

\* The list is in ascending order of score, ties in pattern order.
OrderedByScore(routes) ==
    \A k \in 1..(Len(routes) - 1) :
        \/ RelativeScore(routes[k].pattern) < RelativeScore(routes[k + 1].pattern)
        \/ /\ RelativeScore(routes[k].pattern) = RelativeScore(routes[k + 1].pattern)
           /\ LocaleCompare(routes[k].pattern, routes[k + 1].pattern) <= 0

\* The children list of the route and of every route below it is ordered.
RECURSIVE ChildrenOrderedDeep(_)
ChildrenOrderedDeep(route) ==
    /\ OrderedByScore(route.children)
    /\ \A k \in 1..Len(route.children) : ChildrenOrderedDeep(route.children[k])

\* C22: in every scanned tree every children list, at every nesting depth,
\* is in ascending order of precedence score with ties in pattern order,
\* whatever the order in which the walk yields the files.
C22_ChildrenOrderedAtEveryDepth ==
    pc = "scanned" => \A i \in 1..Len(tree) : ChildrenOrderedDeep(tree[i])

\* The pattern fileToRoute derives from the file of the route.
DerivedPattern(route) ==
    FileToRoute(SubSeq(route.filePath, Len(PagesDir) + 2, Len(route.filePath)),
                PagesDir).pattern

\* C24: in every scanned tree every route with a non-empty children list,
\* at any depth, carries its absolute pattern, the one derived from its
\* file, and not a relative one.
C24_ParentsKeepAbsolutePattern ==
    pc = "scanned" =>
        \A n \in NodesOf(tree) :
            n.children # <<>> =>
                (StartsWith(n.pattern, <<Slash>>) /\ n.pattern = DerivedPattern(n))

\* C26: when the URL is the absolute pattern of a fully static scanned
\* route, match never returns a route whose full pattern has a dynamic or
\* catch-all token, also when that route is a child of an earlier top-level
\* parent.
C26_StaticBeatsDynamic ==
    (pc = "matched"
        /\ \E i \in FlatIdx :
              /\ \A k \in 1..Len(UrlParts(flat[i].pattern)) :
                    SegmentKind(UrlParts(flat[i].pattern)[k]) = "static"
              /\ flat[i].pattern = UrlNormalized(url))
    => (result.found =>
          \A k \in 1..Len(UrlParts(DerivedPattern(result.route))) :
              SegmentKind(UrlParts(DerivedPattern(result.route))[k]) = "static")

\* The nodes of a tree, one entry per occurrence.
RECURSIVE NodeList(_)
NodeList(routes) ==
    IF routes = <<>> THEN <<>>
    ELSE <<routes[1]>> \o NodeList(routes[1].children) \o NodeList(Tail(routes))

\* C28: every flat route occurs exactly once in the tree, at the top level
\* or in the children list of one parent, also when two parents are both
\* eligible for it; the tree has as many nodes as there are flat routes.
C28_EveryRouteExactlyOnce ==
    pc = "scanned" =>
        /\ Len(NodeList(tree)) = Len(flat)
        /\ \A i \in FlatIdx :
              Cardinality({k \in 1..Len(NodeList(tree)) :
                  NodeList(tree)[k].filePath = flat[i].filePath}) = 1

\* C29: every scanned route is reachable: for every accepted page file with
\* a fully static absolute pattern p, match(p, tree) returns a match, also
\* when the file lies two or more levels below a top-level parent.
C29_StaticRoutesReachable ==
    (pc = "matched"
        /\ \E i \in FlatIdx : ~flat[i].isDynamic /\ flat[i].pattern = url)
    => result.found

(***************************************************************************)
(* Further properties of scanned trees (SpecRoutes, SpecDerive)            *)
(***************************************************************************)

\* The orders in which the same routes can be listed.
Reorderings(l) ==
    {[k \in 1..Len(l) |-> l[q[k]]] :
        q \in {f \in [1..Len(l) -> 1..Len(l)] :
                  \A i, j \in 1..Len(l) : i # j => f[i] # f[j]}}

\* C23: the tree does not depend on the order in which the walk yields the
\* files: every permutation of the flat route list gives the same top-level
\* sequence, the same attachment and the same order in every children list,
\* also when two files derive the same pattern.
C23_TreeIndependentOfWalkOrder ==
    pc = "scanned" => \A l \in Reorderings(flat) : BuildRouteTree(l) = tree

\* C25: in every scanned pattern a catch-all token (:name+) or an optional
\* catch-all token (:name*) occurs only as the last segment.
C25_CatchAllOnlyLast ==
    (pc = "scanned" /\ flat # <<>>) =>
        LET parts == PatternParts(flat[1].pattern)
        IN \A k \in 1..(Len(parts) - 1) :
               SegmentKind(parts[k]) \notin {"catchAll", "optionalCatchAll"}

\* The file-name segments that are one of the three bracket forms.
BracketForms == {BrId, BrSlug, BrOptSlug}

\* No segment of the file of the route is a bracket form.
AllLiteral(route) ==
    LET segs == KeptSegments(SubSeq(route.filePath, Len(PagesDir) + 2,
                                    Len(route.filePath)))
    IN \A k \in 1..Len(segs) : segs[k] \notin BracketForms

\* C27: a file-name segment that is not a bracket form is static whatever
\* characters it has: the scorer adds 0 for it, and the matcher accepts for
\* it only an equal URL segment and binds no parameter.
C27_LiteralSegmentsAreStatic ==
    pc \in {"scanned", "matched"} =>
        \A i \in FlatIdx :
            AllLiteral(flat[i]) =>
                /\ RoutePrecedence(flat[i].pattern) = 0
                /\ (pc = "matched" /\ result.found
                        /\ result.route.filePath = flat[i].filePath)
                     => /\ UrlParts(UrlNormalized(url)) = PatternParts(flat[i].pattern)
                        /\ result.params = <<>>

(***************************************************************************)
(* Part V.  The route cache when a directory walk can fail.                *)
(*          Specification: SpecFail.                                       *)
(***************************************************************************)

\* The error a walk rejects with.  epoch and callsBefore are history, read
\* only by the properties: the invalidations of the directory and the
\* scanRoutes calls made before the walk failed.
WalkError(w) ==
    [error |-> w, epoch |-> invCount[walks[w].dir], callsBefore |-> Len(calls)]

\* scanPageRoutes rejects: the glob iteration throws.
WalkFail(w) ==
    /\ w \in 1..Len(walks)
    /\ walks[w].state = "pending"
    /\ walks' = [walks EXCEPT ![w].state = "rejected", ![w].value = WalkError(w)]
    /\ UNCHANGED <<fsFiles, routeCache, calls, invCount, fsOps, sinceInv, routeVars, apiVars>>

\* scanRoutes line 50 of the call that started the walk: the await throws,
\* line 51 is not run and the call rejects with the error of the walk.
ScanThrow(c) ==
    /\ c \in 1..Len(calls)
    /\ calls[c].own /\ calls[c].pc = "awaiting"
    /\ walks[calls[c].promise].state = "rejected"
    /\ calls' = [calls EXCEPT ![c].pc = "failed"]
    /\ UNCHANGED <<fsFiles, routeCache, walks, invCount, fsOps, sinceInv, routeVars, apiVars>>

NextFail ==
    \/ \E d \in Dirs : ScanCall(d)
    \/ \E w \in 1..MaxCalls : WalkComplete(w)
    \/ \E w \in 1..MaxCalls : WalkFail(w)
    \/ \E c \in 1..MaxCalls : ScanResume(c)
    \/ \E c \in 1..MaxCalls : ScanThrow(c)
    \/ \E d \in Dirs : Invalidate(d)
    \/ \E d \in Dirs, f \in DiskFiles : AddFile(d, f)
    \/ \E d \in Dirs, f \in DiskFiles : RemoveFile(d, f)

SpecFail == Init /\ [][NextFail]_vars

(***************************************************************************)
(* Properties of failed scans (specification SpecFail)                     *)
(***************************************************************************)

\* The walks that failed while their promise was the entry of the cache:
\* no invalidate of the directory between their start and their failure.
FailedInCache ==
    {w \in 1..Len(walks) :
        walks[w].state = "rejected" /\ walks[w].value.epoch = WalkEpoch(w)}

\* The scanRoutes calls of the directory of w made after w failed.
CallsAfterFailure(w) ==
    {c \in 1..Len(calls) :
        calls[c].dir = walks[w].dir /\ c > walks[w].value.callsBefore}

\* C30: a failed walk stays in the cache: every later scan(dir) call made
\* before the next invalidate(dir) is handed the failed promise, so it fails
\* with the same error and starts no walk; the first scan(dir) call after
\* the invalidate starts a new walk.
C30_FailedScanStaysCached ==
    \A w \in FailedInCache :
        \A c \in CallsAfterFailure(w) :
            /\ calls[c].callEpoch = walks[w].value.epoch
                  => (calls[c].promise = w /\ ~calls[c].own)
            /\ (/\ calls[c].callEpoch > walks[w].value.epoch
                /\ \A b \in CallsAfterFailure(w) :
                      calls[b].callEpoch = calls[c].callEpoch => b >= c)
                  => calls[c].own

====
